---- MODULE Spec2Model ----
(***************************************************************************)
(* Booking-and-credit-ledger transaction engine of the tutoring backend.   *)
(*                                                                         *)
(* The committed database is three collections: class sessions (slots),    *)
(* bookings and the credit ledger.  POST /bookings and                     *)
(* POST /bookings/:id/cancel run their reads and writes inside a MongoDB   *)
(* multi-document transaction (mongoSession.withTransaction): reads come   *)
(* from the snapshot taken by the first operation, writes are buffered and *)
(* take a document-level write lock, a write to a document that another    *)
(* transaction holds or that changed after the snapshot raises a           *)
(* WriteConflict (the callback is run again), and commit applies all       *)
(* buffered writes at once.  The teacher routes and the purchase route     *)
(* write outside any transaction.  Every `await` of a handler is one step. *)
(***************************************************************************)
EXTENDS Integers, Sequences, FiniteSets, TLC

\* ---------------------------------------------------------------- bounds
MaxOps == 2          \* requests issued over a whole run

Students == {"u1", "u2"}
Teachers == {"t1", "t2"}
Slots == {"s1", "s2"}
SlotIds == Slots \cup {"s0"}   \* "s0": a valid ObjectId that names no class session
Reqs == {"r1", "r2"}
Prices == {1, 2}     \* priceCredits: z.number().int().min(1)
Credits == {1, 2}    \* purchase credits: z.number().int().min(1).max(500)
BookingIds == 1 .. 2 \* ids a cancel / complete request may name

NoSlot == [status |-> "none", priceCredits |-> 0, meetingLink |-> FALSE]
NoBooking == [sessionId |-> "none", studentUserId |-> "none", status |-> "none",
              priceCredits |-> 0, creditTxId |-> 0]
NoWrites == [slot |-> <<>>, bookingIns |-> <<>>, bookingSet |-> <<>>, ledger |-> <<>>]

VARIABLES
    slots,        \* classsessions collection: slot id -> [status, priceCredits, meetingLink]
    bookings,     \* bookings collection, in insertion order; _id = position
    ledger,       \* credittransactions collection, in insertion order; _id = position
    req,          \* the in-flight requests
    opsLeft,      \* remaining budget of writing requests
    resp,         \* the response sent by the step just taken, if it sent one
    effects       \* the provider calls and notifications made by the step just taken

vars == <<slots, bookings, ledger, req, opsLeft, resp, effects>>

\* teacherId of a class session: set at creation, never patched.
TeacherOf(s) == IF s = "s1" THEN "t1" ELSE "t2"

\* Response body: the error text and, for a 402, the balance and the price.
Body(error, balance, required) == [error |-> error, balance |-> balance, required |-> required]

NoBody == Body("", 0, 0)

Idle == [op |-> "none", pc |-> "idle", user |-> "none", sid |-> "none", bid |-> 0,
         snapLen |-> 0, classSession |-> NoSlot, booking |-> NoBooking,
         updated |-> NoSlot, staleS |-> {}, staleB |-> {}, writes |-> NoWrites, status |-> 0,
         body |-> NoBody, bbb |-> "none", cause |-> "none"]

\* A request that has been answered (res.status(...).json(...)).
Answered(q, status) == [q EXCEPT !.pc = "done", !.status = status]

NoResp == [op |-> "none", status |-> 0, body |-> NoBody, bbb |-> "none", cause |-> "none",
           user |-> "none", sid |-> "none", bid |-> 0]

\* --------------------------------------------------------------- ledger
RECURSIVE SumAmounts(_)
SumAmounts(entries) ==
    IF entries = <<>> THEN 0 ELSE Head(entries).amount + SumAmounts(Tail(entries))

MatchUser(entries, u) == SelectSeq(entries, LAMBDA e : e.userId = u)

\* Mutant: the aggregation without its $match stage.
AggregateAllUsers(entries, u) ==
    IF entries = <<>> THEN <<>> ELSE <<[balance |-> SumAmounts(entries)]>>

\* [{ $match: { userId } }, { $group: { _id: null, balance: { $sum: "$amount" } } }]
\* yields no document at all when nothing matches.
Aggregate(entries, u) ==
    IF MatchUser(entries, u) = <<>> THEN <<>>
    ELSE <<[balance |-> SumAmounts(MatchUser(entries, u))]>>

\* agg[0]?.balance ?? 0
BalanceOf(agg) == IF agg = <<>> THEN 0 ELSE agg[1].balance

SpendEntry(u, price, b, s) ==
    [userId |-> u, type |-> "spend", amount |-> 0 - price, bookingId |-> b, sessionId |-> s]

\* Mutant: the refund taken from the slot's current price.
RefundSlotPrice(booking, slot) == slot.priceCredits

\* amount of the refund entry: booking.priceCredits
RefundAmount(booking, slot) == booking.priceCredits

\* Mutant: the refund entry written with the price the slot carries now.
RefundEntryAtSlotPrice(u, booking, b, slot) ==
    [userId |-> u, type |-> "refund", amount |-> slot.priceCredits,
     bookingId |-> b, sessionId |-> booking.sessionId]

RefundEntry(u, booking, b, slot) ==
    [userId |-> u, type |-> "refund", amount |-> RefundAmount(booking, slot),
     bookingId |-> b, sessionId |-> booking.sessionId]

\* Mutant: every purchase credited to one account.
PurchaseEntryShared(u, credits) ==
    [userId |-> "u1", type |-> "purchase", amount |-> credits, bookingId |-> 0,
     sessionId |-> "none"]

PurchaseEntry(u, credits) ==
    [userId |-> u, type |-> "purchase", amount |-> credits, bookingId |-> 0,
     sessionId |-> "none"]

\* ------------------------------------------------- transaction machinery
InTxn(r) == req[r].pc \in {"c_bal", "c_upd", "c_ins", "c_tx", "c_save", "c_commit",
                           "x_save", "x_slot", "x_refund", "x_commit"}

\* Documents a transaction has written and so holds the write lock of.
LockedSlots(r) == IF req[r].writes.slot = <<>> THEN {} ELSE {req[r].writes.slot[1]}
LockedBookings(r) ==
    IF req[r].writes.bookingSet = <<>> THEN {} ELSE {req[r].writes.bookingSet[1]}

\* Mutant: a write outside a transaction never waits for a transaction.
NeverLocked(s) == FALSE

SlotLocked(s) == \E r \in Reqs : s \in LockedSlots(r)
BookingLocked(b) == \E r \in Reqs : b \in LockedBookings(r)

\* A transactional write conflicts when another transaction holds the document
\* or when the document was written by someone else after this snapshot.
SlotConflict(r, s) ==
    \/ \E o \in Reqs \ {r} : s \in LockedSlots(o)
    \/ s \in req[r].staleS

BookingConflict(r, b) ==
    \/ \E o \in Reqs \ {r} : b \in LockedBookings(o)
    \/ b \in req[r].staleB

\* Documents an open transaction has read from its snapshot.
ReadSlots(q) ==
    IF q.op = "create" THEN {q.sid}
    ELSE IF q.booking.sessionId \in Slots THEN {q.booking.sessionId} ELSE {}

ReadBookings(q) == IF q.op = "cancel" THEN {q.bid} ELSE {}

\* Mutant: a transaction never learns that a document changed after its snapshot.
NoStaleMarks(rq, writer, ss, bs) == rq

\* Every other open transaction learns which documents changed after its snapshot.
MarkStale(rq, writer, ss, bs) ==
    [o \in Reqs |->
        IF o # writer /\ rq[o].pc \in {"c_bal", "c_upd", "c_ins", "c_tx", "c_save", "c_commit",
                                       "x_save", "x_slot", "x_refund", "x_commit"}
        THEN [rq[o] EXCEPT !.staleS = @ \cup (ss \cap ReadSlots(rq[o])),
                           !.staleB = @ \cup (bs \cap ReadBookings(rq[o]))]
        ELSE rq[o]]

\* Mutant: the bookings collection without its unique sessionId index.
NoUniqueSessionIndex(s) == FALSE

\* BookingSchema.index({ sessionId: 1 }, { unique: true })
DuplicateSessionId(s) == \E i \in 1 .. Len(bookings) : bookings[i].sessionId = s

\* ------------------------------------------------ withTransaction helpers
\* A fresh run of the callback: nothing read, nothing buffered.
FreshTxn(q, pc0) ==
    [q EXCEPT !.pc = pc0, !.snapLen = 0, !.classSession = NoSlot, !.booking = NoBooking,
              !.updated = NoSlot, !.staleS = {}, !.staleB = {}, !.writes = NoWrites]

\* The callback threw: the transaction is aborted, its buffered writes are
\* dropped, the error reaches the Express error handler (500).
Thrown(q, why) == [Answered(q, 500) EXCEPT !.cause = why, !.body = NoBody, !.bbb = "none"]

\* Mutant: a transaction that met a write conflict is never run again.
HangOnWriteConflict(q, pc0) == [q EXCEPT !.pc = "blocked"]

\* A WriteConflict carries the TransientTransactionError label: withTransaction
\* aborts the transaction and runs the callback again.
OnWriteConflict(q, pc0) == FreshTxn(q, pc0)

\* The ids of the documents inserted by a transaction are fixed when it commits:
\* -1 in a buffered document stands for "the document this transaction inserts".
CommittedBookings(w) ==
    LET set == IF w.bookingSet = <<>> THEN bookings
               ELSE [bookings EXCEPT ![w.bookingSet[1]].status = w.bookingSet[2]]
        ins == IF w.bookingIns = <<>> THEN <<>>
               ELSE <<[w.bookingIns[1] EXCEPT
                         !.creditTxId = IF @ = -1 THEN Len(ledger) + 1 ELSE @]>>
    IN  set \o ins

\* Mutant: a refund that takes the booking's spend entry out of the ledger
\* instead of appending to it.
CommittedLedgerNetted(w) ==
    IF w.ledger # <<>> /\ w.ledger[1].type = "refund"
    THEN SelectSeq(ledger, LAMBDA e : ~(e.type = "spend" /\ e.bookingId = w.ledger[1].bookingId))
    ELSE ledger \o [i \in 1 .. Len(w.ledger) |->
                      [w.ledger[i] EXCEPT
                         !.bookingId = IF @ = -1 THEN Len(bookings) + 1 ELSE @]]

CommittedLedger(w) ==
    ledger \o [i \in 1 .. Len(w.ledger) |->
                 [w.ledger[i] EXCEPT
                    !.bookingId = IF @ = -1 THEN Len(bookings) + 1 ELSE @]]

CommittedSlots(w) ==
    IF w.slot = <<>> THEN slots ELSE [slots EXCEPT ![w.slot[1]].status = w.slot[2]]

WrittenSlots(w) == IF w.slot = <<>> THEN {} ELSE {w.slot[1]}
WrittenBookings(w) == IF w.bookingSet = <<>> THEN {} ELSE {w.bookingSet[1]}

\* One step of request r, leaving it as q2, while the open transactions learn
\* that the slots ss and the bookings bs were written and the side effects fx
\* go out.  An answered request frees its connection and its response goes out.
AdvanceFx(r, q2, ss, bs, fx) ==
    /\ req' = MarkStale([req EXCEPT ![r] = IF q2.pc = "done" THEN Idle ELSE q2], r, ss, bs)
    /\ resp' = IF q2.pc = "done"
               THEN [op |-> q2.op, status |-> q2.status, body |-> q2.body, bbb |-> q2.bbb,
                     cause |-> q2.cause, user |-> q2.user, sid |-> q2.sid, bid |-> q2.bid]
               ELSE NoResp
    /\ effects' = fx

AdvanceMark(r, q2, ss, bs) == AdvanceFx(r, q2, ss, bs, {})

Advance(r, q2) == AdvanceMark(r, q2, {}, {})

\* A new request takes the first free connection.
Free(r) ==
    /\ req[r].pc = "idle"
    /\ r = "r1" \/ req["r1"].pc # "idle"

\* ------------------------------------------------------- POST /bookings
\* balance < classSession.priceCredits
NotEnoughCredits(balance, price) == balance < price

StartCreate(r, u, s) ==
    /\ Free(r)
    /\ opsLeft > 0
    /\ opsLeft' = opsLeft - 1
    /\ Advance(r, [Idle EXCEPT !.op = "create", !.pc = "c_find", !.user = u, !.sid = s])
    /\ UNCHANGED <<slots, bookings, ledger>>

\* Mutant: the slot is taken by the first operation, before the balance check.
CreateFindAndHold(r) ==
    /\ req[r].pc = "c_find"
    /\ LET q == [req[r] EXCEPT !.snapLen = Len(ledger)]
       IN  Advance(r,
             IF SlotConflict(r, q.sid) THEN OnWriteConflict(q, "c_find")
             ELSE IF q.sid \in Slots /\ slots[q.sid].status = "open"
             THEN [q EXCEPT !.pc = "c_bal", !.classSession = slots[q.sid],
                            !.writes.slot = <<q.sid, "booked">>]
             ELSE [q EXCEPT !.pc = "c_commit", !.status = 409,
                            !.body = Body("Session is not available", 0, 0)])
    /\ UNCHANGED <<slots, bookings, ledger, opsLeft>>

\* Mutant: the balance is checked before the slot is looked at.
CreateFindBalanceFirst(r) ==
    /\ req[r].pc = "c_find"
    /\ LET q == [req[r] EXCEPT !.snapLen = Len(ledger)]
           balance == BalanceOf(Aggregate(ledger, q.user))
       IN  Advance(r,
             IF q.sid \in Slots /\ NotEnoughCredits(balance, slots[q.sid].priceCredits)
             THEN [q EXCEPT !.pc = "c_commit", !.status = 402,
                            !.body = Body("Not enough credits", balance,
                                          slots[q.sid].priceCredits)]
             ELSE IF q.sid \in Slots /\ slots[q.sid].status = "open"
             THEN [q EXCEPT !.pc = "c_bal", !.classSession = slots[q.sid]]
             ELSE [q EXCEPT !.pc = "c_commit", !.status = 409,
                            !.body = Body("Session is not available", 0, 0)])
    /\ UNCHANGED <<slots, bookings, ledger, opsLeft>>

\* ClassSessionModel.findOne({ _id: sessionId, status: "open" }): the first
\* operation of the transaction, which fixes its snapshot.
CreateFind(r) ==
    /\ req[r].pc = "c_find"
    /\ LET q == [req[r] EXCEPT !.snapLen = Len(ledger)]
       IN  Advance(r,
             IF q.sid \in Slots /\ slots[q.sid].status = "open"
             THEN [q EXCEPT !.pc = "c_bal", !.classSession = slots[q.sid]]
             ELSE [q EXCEPT !.pc = "c_commit", !.status = 409,
                            !.body = Body("Session is not available", 0, 0)])
    /\ UNCHANGED <<slots, bookings, ledger, opsLeft>>

\* CreditTransactionModel.aggregate(...).session(mongoSession), read from the snapshot.
CreateBalance(r) ==
    /\ req[r].pc = "c_bal"
    /\ LET q == req[r]
           balance == BalanceOf(Aggregate(SubSeq(ledger, 1, q.snapLen), q.user))
       IN  Advance(r,
             IF NotEnoughCredits(balance, q.classSession.priceCredits)
             THEN [q EXCEPT !.pc = "c_commit", !.status = 402,
                            !.body = Body("Not enough credits", balance,
                                          q.classSession.priceCredits)]
             ELSE [q EXCEPT !.pc = "c_upd"])
    /\ UNCHANGED <<slots, bookings, ledger, opsLeft>>

\* Mutant: the conditional update run on the latest committed document, with
\* no regard for what the transaction read before.
CreateUpdateSlotLatest(r) ==
    /\ req[r].pc = "c_upd"
    /\ LET q == req[r]
       IN  Advance(r,
             IF \E o \in Reqs \ {r} : q.sid \in LockedSlots(o)
             THEN OnWriteConflict(q, "c_find")
             ELSE IF slots[q.sid].status # "open"
             THEN [q EXCEPT !.pc = "c_commit", !.status = 409,
                            !.body = Body("Session already booked", 0, 0)]
             ELSE [q EXCEPT !.pc = "c_ins",
                            !.updated = [slots[q.sid] EXCEPT !.status = "booked"],
                            !.writes.slot = <<q.sid, "booked">>])
    /\ UNCHANGED <<slots, bookings, ledger, opsLeft>>

\* ClassSessionModel.findOneAndUpdate({ _id, status: "open" }, { status: "booked" },
\* { new: true, session }): the filter is evaluated on the snapshot.
CreateUpdateSlot(r) ==
    /\ req[r].pc = "c_upd"
    /\ LET q == req[r]
       IN  Advance(r,
             IF SlotConflict(r, q.sid) THEN OnWriteConflict(q, "c_find")
             ELSE IF slots[q.sid].status # "open"
             THEN [q EXCEPT !.pc = "c_commit", !.status = 409,
                            !.body = Body("Session already booked", 0, 0)]
             ELSE [q EXCEPT !.pc = "c_ins",
                            !.updated = [slots[q.sid] EXCEPT !.status = "booked"],
                            !.writes.slot = <<q.sid, "booked">>])
    /\ UNCHANGED <<slots, bookings, ledger, opsLeft>>

\* BookingModel.create([...], { session }); the unique sessionId index rejects a
\* second document for the slot with a duplicate-key error, which is thrown.
CreateInsertBooking(r) ==
    /\ req[r].pc = "c_ins"
    /\ LET q == req[r]
       IN  Advance(r,
             IF DuplicateSessionId(q.sid) THEN Thrown(q, "duplicate_key")
             ELSE [q EXCEPT !.pc = "c_tx",
                            !.writes.bookingIns =
                                <<[sessionId |-> q.sid, studentUserId |-> q.user,
                                   status |-> "booked",
                                   priceCredits |-> q.updated.priceCredits,
                                   creditTxId |-> 0]>>])
    /\ UNCHANGED <<slots, bookings, ledger, opsLeft>>

\* Mutant: the spend entry inserted without the transaction's session.
CreateInsertTxNoSession(r) ==
    /\ req[r].pc = "c_tx"
    /\ ledger' = Append(ledger, SpendEntry(req[r].user, req[r].updated.priceCredits,
                                           Len(bookings) + 1, req[r].sid))
    /\ Advance(r, [req[r] EXCEPT !.pc = "c_save"])
    /\ UNCHANGED <<slots, bookings, opsLeft>>

\* CreditTransactionModel.create([{ type: "spend", amount: -updated.priceCredits }])
CreateInsertTx(r) ==
    /\ req[r].pc = "c_tx"
    /\ LET q == req[r]
       IN  Advance(r, [q EXCEPT !.pc = "c_save",
                                !.writes.ledger =
                                    <<SpendEntry(q.user, q.updated.priceCredits, -1, q.sid)>>])
    /\ UNCHANGED <<slots, bookings, ledger, opsLeft>>

\* Mutant: the booking saved without the id of its spend entry.
CreateSaveNoLink(r) ==
    /\ req[r].pc = "c_save"
    /\ Advance(r, [req[r] EXCEPT !.pc = "c_commit", !.status = 201])
    /\ UNCHANGED <<slots, bookings, ledger, opsLeft>>

\* bookingDoc.creditTxId = tx[0]._id; await bookingDoc.save(); result = 201
CreateSave(r) ==
    /\ req[r].pc = "c_save"
    /\ LET q == req[r]
       IN  Advance(r, [q EXCEPT !.pc = "c_commit",
                                !.writes.bookingIns =
                                    <<[q.writes.bookingIns[1] EXCEPT !.creditTxId = -1]>>,
                                !.status = 201])
    /\ UNCHANGED <<slots, bookings, ledger, opsLeft>>

\* Mutant: the side-effect block entered whatever the result.
AnyResult(q) == TRUE

\* if (result.status === 201 && createdBookingId)
BookingSucceeded(q) == q.status = 201

\* The callback returned: withTransaction commits whatever it buffered.  After a
\* 201 (create) or a 200 (cancel) the handler goes on to its side effects,
\* otherwise it answers at once.
Commit(r) ==
    /\ req[r].pc \in {"c_commit", "x_commit"}
    /\ LET q == req[r]
           after == IF q.op = "create" /\ BookingSucceeded(q) THEN FreshTxn(q, "c_post")
                    ELSE IF q.op = "cancel" /\ q.status = 200 THEN FreshTxn(q, "x_post")
                    ELSE Answered(q, q.status)
       IN  /\ slots' = CommittedSlots(q.writes)
           /\ bookings' = CommittedBookings(q.writes)
           /\ ledger' = CommittedLedger(q.writes)
           /\ AdvanceMark(r, after, WrittenSlots(q.writes), WrittenBookings(q.writes))
    /\ UNCHANGED opsLeft

\* A storage error in any operation of the transaction (or in its commit) is
\* thrown out of withTransaction: the transaction is aborted.
StorageError(r) ==
    /\ InTxn(r)
    /\ Advance(r, Thrown(req[r], "storage"))
    /\ UNCHANGED <<slots, bookings, ledger, opsLeft>>

\* Mutant: the error of the provisioning block reaches the error handler.
ProvisionErrorThrown(q) == Thrown(q, "provision")

\* catch (e): result.body.bbb = { created: false, error: msg }; the handler goes on.
OnProvisionError(q) == [q EXCEPT !.pc = "c_notify", !.bbb = "failed"]

\* What the provisioning block can come to: the provider is not configured;
\* the meeting is created; the provider answers idNotUnique (taken as success,
\* created stays false); or a step of the block throws.
ProvisionOutcomes == {"not_configured", "created", "exists", "failed"}

\* What the provider's create call can answer: success, or an error whose
\* message may contain "idNotUnique" and, lower-cased, "not unique".
ProviderOk == [ok |-> TRUE, idNotUnique |-> FALSE, notUnique |-> FALSE]

ProviderResults == {ProviderOk} \cup [ok : {FALSE}, idNotUnique : BOOLEAN, notUnique : BOOLEAN]

\* Mutant: no error is taken for "the meeting exists already".
NeverIdNotUnique(err) == FALSE

\* msg.includes("idNotUnique") || msg.toLowerCase().includes("not unique")
isBbbIdNotUniqueError(err) == err.idNotUnique \/ err.notUnique

\* try { await bbb.callXml("create", ...); created = true }
\* catch (e) { if (!isBbbIdNotUniqueError(e)) throw e }
CallOutcome(result) ==
    IF result.ok THEN "created"
    ELSE IF isBbbIdNotUniqueError(result) THEN "exists"
    ELSE "failed"

\* The call as the provider saw it.
CallEffects(result) ==
    {"bbb_create"}
    \cup (IF result.ok THEN {} ELSE {"bbb_error"})
    \cup (IF result.idNotUnique THEN {"bbb_error_idNotUnique"} ELSE {})
    \cup (IF result.notUnique THEN {"bbb_error_not_unique"} ELSE {})

\* After the commit of a 201: the meeting-provisioning block, inside its own
\* try/catch.  It calls the provider's create and then stores the join link
\* on the class session, outside any transaction (the write waits while a
\* transaction holds the document).
CreateProvision(r, configured, stepThrows, result) ==
    /\ req[r].pc = "c_post"
    /\ LET q == req[r]
           outcome == IF ~configured THEN "not_configured"
                      ELSE IF stepThrows THEN "failed"
                      ELSE CallOutcome(result)
       IN  IF ~configured
           THEN /\ Advance(r, [q EXCEPT !.pc = "c_notify", !.bbb = outcome])
                /\ UNCHANGED slots
           ELSE IF stepThrows
           THEN /\ Advance(r, OnProvisionError(q))
                /\ UNCHANGED slots
           ELSE IF outcome \in {"created", "exists"}
           THEN /\ ~SlotLocked(q.sid)
                /\ slots' = [slots EXCEPT ![q.sid].meetingLink = TRUE]
                /\ AdvanceFx(r, [q EXCEPT !.pc = "c_notify", !.bbb = outcome],
                             {q.sid}, {}, CallEffects(result) \cup {"meeting_link"})
           ELSE /\ AdvanceFx(r, OnProvisionError(q), {}, {}, CallEffects(result))
                /\ UNCHANGED slots
    /\ UNCHANGED <<bookings, ledger, opsLeft>>

\* Then the teacher notification: resolveTeacherUserId and the student profile
\* lookup are awaited outside any try/catch; persistAndNotify catches its own
\* errors.  With no user behind the teacher profile nothing is sent.
CreatePost(r, lookupFails, teacherUser) ==
    /\ req[r].pc = "c_notify"
    /\ IF lookupFails THEN Advance(r, Thrown(req[r], "side_effect"))
       ELSE AdvanceFx(r, Answered(req[r], req[r].status), {}, {},
                      IF teacherUser THEN {"new_booking"} ELSE {})
    /\ UNCHANGED <<slots, bookings, ledger, opsLeft>>

\* --------------------------------------------- POST /bookings/:id/cancel
StartCancel(r, u, b) ==
    /\ Free(r)
    /\ opsLeft > 0
    /\ opsLeft' = opsLeft - 1
    /\ Advance(r, [Idle EXCEPT !.op = "cancel", !.pc = "x_find", !.user = u, !.bid = b])
    /\ UNCHANGED <<slots, bookings, ledger>>

\* Mutant: the booking is cancelled whatever its status.
CancelFindNoStatusCheck(r) ==
    /\ req[r].pc = "x_find"
    /\ LET q == [req[r] EXCEPT !.snapLen = Len(ledger)]
           found == q.bid <= Len(bookings) /\ bookings[q.bid].studentUserId = q.user
       IN  Advance(r,
             IF ~found
             THEN [q EXCEPT !.pc = "x_commit", !.status = 404,
                            !.body = Body("Booking not found", 0, 0)]
             ELSE [q EXCEPT !.pc = "x_save", !.booking = bookings[q.bid]])
    /\ UNCHANGED <<slots, bookings, ledger, opsLeft>>

\* Mutant: the booking is looked up by its id alone.
CancelFindAnyStudent(r) ==
    /\ req[r].pc = "x_find"
    /\ LET q == [req[r] EXCEPT !.snapLen = Len(ledger)]
           found == q.bid <= Len(bookings)
       IN  Advance(r,
             IF ~found
             THEN [q EXCEPT !.pc = "x_commit", !.status = 404,
                            !.body = Body("Booking not found", 0, 0)]
             ELSE IF bookings[q.bid].status # "booked"
             THEN [q EXCEPT !.pc = "x_commit", !.status = 409,
                            !.body = Body("Booking cannot be cancelled", 0, 0)]
             ELSE [q EXCEPT !.pc = "x_save", !.booking = bookings[q.bid]])
    /\ UNCHANGED <<slots, bookings, ledger, opsLeft>>

\* BookingModel.findOne({ _id: bookingId, studentUserId }) and the status check.
CancelFind(r) ==
    /\ req[r].pc = "x_find"
    /\ LET q == [req[r] EXCEPT !.snapLen = Len(ledger)]
           found == q.bid <= Len(bookings) /\ bookings[q.bid].studentUserId = q.user
       IN  Advance(r,
             IF ~found
             THEN [q EXCEPT !.pc = "x_commit", !.status = 404,
                            !.body = Body("Booking not found", 0, 0)]
             ELSE IF bookings[q.bid].status # "booked"
             THEN [q EXCEPT !.pc = "x_commit", !.status = 409,
                            !.body = Body("Booking cannot be cancelled", 0, 0)]
             ELSE [q EXCEPT !.pc = "x_save", !.booking = bookings[q.bid]])
    /\ UNCHANGED <<slots, bookings, ledger, opsLeft>>

\* booking.status = "cancelled"; await booking.save({ session })
CancelSave(r) ==
    /\ req[r].pc = "x_save"
    /\ LET q == req[r]
       IN  Advance(r,
             IF BookingConflict(r, q.bid) THEN OnWriteConflict(q, "x_find")
             ELSE [q EXCEPT !.pc = "x_slot", !.booking.status = "cancelled",
                            !.writes.bookingSet = <<q.bid, "cancelled">>])
    /\ UNCHANGED <<slots, bookings, ledger, opsLeft>>

\* ClassSessionModel.updateOne({ _id: booking.sessionId }, { status: "open" }),
\* with no condition on the current status.
CancelReopen(r) ==
    /\ req[r].pc = "x_slot"
    /\ LET q == req[r]
       IN  Advance(r,
             IF SlotConflict(r, q.booking.sessionId) THEN OnWriteConflict(q, "x_find")
             ELSE [q EXCEPT !.pc = "x_refund",
                            !.writes.slot = <<q.booking.sessionId, "open">>])
    /\ UNCHANGED <<slots, bookings, ledger, opsLeft>>

\* CreditTransactionModel.create([{ type: "refund", ... }]); result = 200
CancelRefund(r) ==
    /\ req[r].pc = "x_refund"
    /\ LET q == req[r]
       IN  Advance(r, [q EXCEPT !.pc = "x_commit",
                                !.writes.ledger =
                                    <<RefundEntry(q.user, q.booking, q.bid,
                                                  slots[q.booking.sessionId])>>,
                                !.status = 200])
    /\ UNCHANGED <<slots, bookings, ledger, opsLeft>>

\* After the commit: the teacher notification, whose lookups are awaited
\* outside any try/catch.
CancelPost(r, lookupFails, teacherUser) ==
    /\ req[r].pc = "x_post"
    /\ IF lookupFails THEN Advance(r, Thrown(req[r], "side_effect"))
       ELSE AdvanceFx(r, Answered(req[r], req[r].status), {}, {},
                      IF teacherUser THEN {"booking_cancelled"} ELSE {})
    /\ UNCHANGED <<slots, bookings, ledger, opsLeft>>

\* ------------------------------------------------------- teacher routes
\* PATCH /teacher/sessions/:id: one findOneAndUpdate({ _id, teacherId }, { $set }),
\* outside any transaction; it waits while a transaction holds the document.
\* status "keep" and price 0 stand for an absent field.
PatchSession(t, s, status, price) ==
    /\ opsLeft > 0
    /\ status # "keep" \/ price # 0
    /\ ~SlotLocked(s)
    /\ opsLeft' = opsLeft - 1
    /\ IF TeacherOf(s) = t
       THEN /\ slots' = [slots EXCEPT
                           ![s].status = IF status = "keep" THEN @ ELSE status,
                           ![s].priceCredits = IF price = 0 THEN @ ELSE price]
            /\ req' = MarkStale(req, "none", {s}, {})
            /\ resp' = [NoResp EXCEPT !.op = "patch", !.status = 200, !.user = t, !.sid = s]
            /\ effects' = IF status = "cancelled"
                              /\ \E i \in 1 .. Len(bookings) :
                                    bookings[i].sessionId = s /\ bookings[i].status = "booked"
                           THEN {"session_cancelled"} ELSE {}
       ELSE /\ UNCHANGED <<slots, req>>
            /\ resp' = [NoResp EXCEPT !.op = "patch", !.status = 404, !.user = t, !.sid = s]
            /\ effects' = {}
    /\ UNCHANGED <<bookings, ledger>>

StartComplete(r, t, b) ==
    /\ Free(r)
    /\ opsLeft > 0
    /\ opsLeft' = opsLeft - 1
    /\ Advance(r, [Idle EXCEPT !.op = "complete", !.pc = "t_find", !.user = t, !.bid = b])
    /\ UNCHANGED <<slots, bookings, ledger>>

\* BookingModel.findOne({ _id: id, teacherId }).lean() and the status check.
CompleteFind(r) ==
    /\ req[r].pc = "t_find"
    /\ LET q == req[r]
           found == /\ q.bid <= Len(bookings)
                    /\ TeacherOf(bookings[q.bid].sessionId) = q.user
       IN  Advance(r,
             IF ~found THEN Answered(q, 404)
             ELSE IF bookings[q.bid].status # "booked" THEN Answered(q, 400)
             ELSE [q EXCEPT !.pc = "t_upd"])
    /\ UNCHANGED <<slots, bookings, ledger, opsLeft>>

\* BookingModel.updateOne({ _id: id, teacherId }, { status: "completed" }),
\* with no condition on the current status; it waits while a transaction
\* holds the document.
CompleteUpdate(r) ==
    /\ req[r].pc = "t_upd"
    /\ ~BookingLocked(req[r].bid)
    /\ bookings' = [bookings EXCEPT ![req[r].bid].status = "completed"]
    /\ AdvanceFx(r, Answered(req[r], 200), {}, {req[r].bid}, {"lesson_completed"})
    /\ UNCHANGED <<slots, ledger, opsLeft>>

\* ------------------------------------------------------- credits routes
\* POST /credits/purchase: one insert outside any transaction.
Purchase(u, credits) ==
    /\ opsLeft > 0
    /\ opsLeft' = opsLeft - 1
    /\ ledger' = Append(ledger, PurchaseEntry(u, credits))
    /\ resp' = [NoResp EXCEPT !.op = "purchase", !.status = 201, !.user = u]
    /\ effects' = {}
    /\ UNCHANGED <<slots, bookings, req>>

\* GET /credits/balance
GetBalance(u) ==
    /\ opsLeft > 0
    /\ opsLeft' = opsLeft - 1
    /\ resp' = [NoResp EXCEPT !.op = "balance", !.status = 200, !.user = u,
                              !.body = Body("", BalanceOf(Aggregate(ledger, u)), 0)]
    /\ effects' = {}
    /\ UNCHANGED <<slots, bookings, ledger, req>>

\* ----------------------------------------------------------- bbb routes
\* Mutant: any booking of the slot by the student, whatever its status.
EverBooked(u, s) ==
    \E i \in 1 .. Len(bookings) :
        bookings[i].sessionId = s /\ bookings[i].studentUserId = u

\* BookingModel.findOne({ sessionId, studentUserId: user.id, status: "booked" })
HoldsBooking(u, s) ==
    \E i \in 1 .. Len(bookings) :
        /\ bookings[i].sessionId = s /\ bookings[i].studentUserId = u
        /\ bookings[i].status = "booked"

\* String(tp._id) === String(classSession.teacherId)
OwnsSession(t, s) == TeacherOf(s) = t

\* GET /bbb/sessions/:sessionId/join: 403 unless the caller is the student
\* holding a live booking of the slot or the slot's teacher; then 501 without
\* a configured provider, else the redirect to the signed join URL.
JoinSession(u, s, configured) ==
    /\ opsLeft > 0
    /\ opsLeft' = opsLeft - 1
    /\ LET allowed == IF u \in Students THEN HoldsBooking(u, s) ELSE OwnsSession(u, s)
           status == IF ~allowed THEN 403 ELSE IF ~configured THEN 501 ELSE 302
       IN  resp' = [NoResp EXCEPT !.op = "join", !.status = status, !.user = u, !.sid = s]
    /\ effects' = {}
    /\ UNCHANGED <<slots, bookings, ledger, req>>

\* ------------------------------------------------------ initial states
\* The teachers created their slots (POST /teacher/sessions: status "open") and
\* the students bought their first credits.
InitPrice(s) == IF s = "s1" THEN 1 ELSE 2

FreshSlots == [s \in Slots |-> [status |-> "open", priceCredits |-> InitPrice(s),
                                meetingLink |-> FALSE]]

SeedLedgers ==
    {<<PurchaseEntry("u1", 1)>>, <<PurchaseEntry("u1", 2), PurchaseEntry("u2", 1)>>}

\* The booking that student u1 made of slot s1, as CreateBooking commits it on
\* top of the ledger l.
SeedBooking(l, status) ==
    [sessionId |-> "s1", studentUserId |-> "u1", status |-> status,
     priceCredits |-> InitPrice("s1"), creditTxId |-> Len(l) + 1]

\* A run starts from a database the routes below produce: nothing booked yet,
\* or u1 holding a booking of s1, or u1 having booked s1 and cancelled.
InitDatabases ==
    {[slots |-> FreshSlots, bookings |-> <<>>, ledger |-> l] : l \in SeedLedgers}
    \cup {[slots |-> [FreshSlots EXCEPT !["s1"].status = "booked"],
           bookings |-> <<SeedBooking(l, "booked")>>,
           ledger |-> Append(l, SpendEntry("u1", InitPrice("s1"), 1, "s1"))]
          : l \in SeedLedgers}
    \cup {[slots |-> FreshSlots,
           bookings |-> <<SeedBooking(l, "cancelled")>>,
           ledger |-> l \o << SpendEntry("u1", InitPrice("s1"), 1, "s1"),
                              RefundEntry("u1", SeedBooking(l, "booked"), 1,
                                          FreshSlots["s1"]) >>]
          : l \in SeedLedgers}

Init ==
    /\ \E db \in InitDatabases :
         /\ slots = db.slots
         /\ bookings = db.bookings
         /\ ledger = db.ledger
    /\ req = [r \in Reqs |-> Idle]
    /\ opsLeft = MaxOps
    /\ resp = NoResp
    /\ effects = {}

\* The inputs of a step, each combination that makes a difference taken once.
ProvisionInputs ==
    {[configured |-> FALSE, stepThrows |-> FALSE, result |-> ProviderOk],
     [configured |-> TRUE, stepThrows |-> TRUE, result |-> ProviderOk]}
    \cup {[configured |-> TRUE, stepThrows |-> FALSE, result |-> x] : x \in ProviderResults}

NotifyInputs ==
    {[lookupFails |-> TRUE, teacherUser |-> TRUE],
     [lookupFails |-> FALSE, teacherUser |-> TRUE],
     [lookupFails |-> FALSE, teacherUser |-> FALSE]}

PatchInputs ==
    {x \in [teacher : Teachers, slot : Slots, status : {"keep", "open", "cancelled"},
            price : {0} \cup Prices] :
        TeacherOf(x.slot) = x.teacher \/ (x.status = "open" /\ x.price = 0)}

Next ==
    \/ \E r \in Reqs, u \in Students, s \in SlotIds : StartCreate(r, u, s)
    \/ \E r \in Reqs : CreateFind(r)
    \/ \E r \in Reqs : CreateBalance(r)
    \/ \E r \in Reqs : CreateUpdateSlot(r)
    \/ \E r \in Reqs : CreateInsertBooking(r)
    \/ \E r \in Reqs : CreateInsertTx(r)
    \/ \E r \in Reqs : CreateSave(r)
    \/ \E r \in Reqs : Commit(r)
    \/ \E r \in Reqs : StorageError(r)
    \/ \E r \in Reqs, x \in ProvisionInputs :
          CreateProvision(r, x.configured, x.stepThrows, x.result)
    \/ \E r \in Reqs, x \in NotifyInputs : CreatePost(r, x.lookupFails, x.teacherUser)
    \/ \E r \in Reqs, u \in Students, b \in BookingIds : StartCancel(r, u, b)
    \/ \E r \in Reqs : CancelFind(r)
    \/ \E r \in Reqs : CancelSave(r)
    \/ \E r \in Reqs : CancelReopen(r)
    \/ \E r \in Reqs : CancelRefund(r)
    \/ \E r \in Reqs, x \in NotifyInputs : CancelPost(r, x.lookupFails, x.teacherUser)
    \/ \E x \in PatchInputs : PatchSession(x.teacher, x.slot, x.status, x.price)
    \/ \E r \in Reqs, t \in Teachers, b \in BookingIds : StartComplete(r, t, b)
    \/ \E r \in Reqs : CompleteFind(r)
    \/ \E r \in Reqs : CompleteUpdate(r)
    \/ \E u \in Students, c \in Credits : Purchase(u, c)
    \/ \E u \in Students : GetBalance(u)
    \/ \E u \in Students \cup Teachers, s \in Slots, c \in BOOLEAN : JoinSession(u, s, c)

Spec == Init /\ [][Next]_vars

\* The next await of request r resolving without a fault: the store answers
\* every operation it is sent and the event loop runs every continuation.
Step(r) ==
    \/ CreateFind(r) \/ CreateBalance(r) \/ CreateUpdateSlot(r) \/ CreateInsertBooking(r)
    \/ CreateInsertTx(r) \/ CreateSave(r) \/ Commit(r)
    \/ \E x \in ProvisionInputs : CreateProvision(r, x.configured, x.stepThrows, x.result)
    \/ \E x \in NotifyInputs : CreatePost(r, x.lookupFails, x.teacherUser)
    \/ CancelFind(r) \/ CancelSave(r) \/ CancelReopen(r) \/ CancelRefund(r)
    \/ \E x \in NotifyInputs : CancelPost(r, x.lookupFails, x.teacherUser)
    \/ CompleteFind(r) \/ CompleteUpdate(r)

FairSpec == Spec /\ \A r \in Reqs : WF_vars(Step(r))

\* ======================================================== properties
\* Sum of the amounts of the committed entries of user u, entry by entry.
RECURSIVE SumOver(_, _)
SumOver(l, idx) ==
    IF idx = {} THEN 0
    ELSE LET i == CHOOSE j \in idx : TRUE IN l[i].amount + SumOver(l, idx \ {i})

LedgerSum(l, u) == SumOver(l, {i \in 1 .. Len(l) : l[i].userId = u})

BookedOn(s) == {i \in 1 .. Len(bookings) : bookings[i].sessionId = s
                                           /\ bookings[i].status = "booked"}

Faults == {"storage", "side_effect"}

\* C1: in every committed state each slot is referenced by at most one booking
\* whose status is "booked".
C1_AtMostOneBooked == \A s \in Slots : Cardinality(BookedOn(s)) <= 1

\* C1 witness: a slot holds a live booking, was re-opened by its teacher, and a
\* second CreateBooking on it has just been turned down by the unique index.
C1_Witness ==
    /\ resp.op = "create" /\ resp.cause = "duplicate_key"
    /\ BookedOn(resp.sid) # {}
    /\ resp.user # bookings[1].studentUserId

\* Two CreateBooking requests in flight on the same slot, each student holding
\* at least the price of the slot.
Racing(r, o) ==
    /\ r # o
    /\ req[r].op = "create" /\ req[o].op = "create"
    /\ req[r].sid = req[o].sid /\ req[r].sid \in Slots
    /\ LedgerSum(ledger, req[r].user) >= slots[req[r].sid].priceCredits
    /\ LedgerSum(ledger, req[o].user) >= slots[req[o].sid].priceCredits

PastTransition(r) ==
    /\ req[r].op = "create"
    /\ req[r].pc \in {"c_ins", "c_tx", "c_save", "c_post", "c_notify"}
       \/ (req[r].pc = "c_commit" /\ req[r].status = 201)

\* C2: of the CreateBooking requests racing for one open slot exactly one wins
\* (201) and every other one is answered 409: no racing request is answered
\* anything else (storage faults aside), and no two of them get past the slot
\* transition.
C2_OneWinnerOthers409 ==
    /\ [][\A r, o \in Reqs :
            (Racing(r, o) /\ resp'.op = "create")
            => (resp'.status \in {201, 409} \/ resp'.cause \in Faults)]_vars
    /\ [](\A r, o \in Reqs :
            (r # o /\ PastTransition(r) /\ PastTransition(o)) => req[r].sid # req[o].sid)

\* C3: no student's balance (the sum of their committed entries) is ever negative.
C3_NoDoubleSpend == \A u \in Students : LedgerSum(ledger, u) >= 0

CancelledOn(s) == {i \in 1 .. Len(bookings) : bookings[i].sessionId = s
                                              /\ bookings[i].status = "cancelled"}

\* C4: a slot that CancelBooking re-opened can be booked again: a CreateBooking
\* that found it open, had the credits and won the slot transition goes on to
\* insert its booking (storage faults aside).
C4_Rebookable ==
    [][\A r \in Reqs :
         (/\ req[r].pc = "c_ins"
          /\ CancelledOn(req[r].sid) # {}
          /\ BookedOn(req[r].sid) = {}
          /\ req'[r].pc # req[r].pc)
         => (req'[r].pc = "c_tx" \/ resp'.cause \in Faults)]_vars

Last(l) == l[Len(l)]
WithoutEntry(l, k) == SubSeq(l, 1, k - 1) \o SubSeq(l, k + 1, Len(l))

CancelCommits(r) ==
    req[r].pc = "x_commit" /\ req[r].status = 200 /\ req'[r].pc = "x_post"

CreateCommits(r) ==
    req[r].pc = "c_commit" /\ req[r].status = 201 /\ req'[r].pc = "c_post"

\* C5: when the CancelBooking of a booking made by CreateBooking commits, the
\* slot is "open" again, the refund is the magnitude of the booking's debit, and
\* the student's balance is what it would be had the debit never been made.
C5_RoundTrip ==
    [][\A r \in Reqs :
         CancelCommits(r) =>
           LET b == req[r].bid
               u == req[r].user
               k == bookings[b].creditTxId
           IN  /\ slots'[bookings[b].sessionId].status = "open"
               /\ ledger[k].type = "spend" /\ ledger[k].userId = u
               /\ Last(ledger').type = "refund"
               /\ Last(ledger').amount = 0 - ledger[k].amount
               /\ LedgerSum(ledger', u) = LedgerSum(WithoutEntry(ledger, k), u)]_vars

\* C5 witness: student u2 booked a slot in this run and the cancellation of that
\* booking has committed.
C5_Witness ==
    \E r \in Reqs :
        /\ req[r].pc = "x_post"
        /\ bookings[req[r].bid].studentUserId = "u2"
        /\ bookings[req[r].bid].status = "cancelled"
        /\ slots[bookings[req[r].bid].sessionId].status = "open"

\* C6: GET /credits/balance answers the sum of the amounts of the committed
\* entries of the caller, 0 when there is none.
C6_BalanceIsLedgerSum ==
    resp.op = "balance" =>
        /\ resp.body.balance = LedgerSum(ledger, resp.user)
        /\ (\A i \in 1 .. Len(ledger) : ledger[i].userId # resp.user) => resp.body.balance = 0

\* C6 witness: the balance is read by a student who has bought and spent credits,
\* while another student holds entries too.
C6_Witness ==
    /\ resp.op = "balance"
    /\ \E i, j \in 1 .. Len(ledger) :
          /\ ledger[i].userId = resp.user /\ ledger[i].type = "spend"
          /\ ledger[j].userId # resp.user

\* C7: the committed ledger only grows: every step keeps every committed entry,
\* in place and unchanged.
C7_AppendOnly ==
    [][/\ Len(ledger') >= Len(ledger)
       /\ SubSeq(ledger', 1, Len(ledger)) = ledger]_vars

\* C7 witness: a refund has been appended behind the spend entry it undoes.
C7_Witness ==
    \E i, j \in 1 .. Len(ledger) :
        /\ i < j
        /\ ledger[i].type = "spend" /\ ledger[j].type = "refund"
        /\ ledger[i].bookingId = ledger[j].bookingId
        /\ ledger[i].userId = "u2"

Alone(r) == \A o \in Reqs \ {r} : req[o].pc = "idle"

SnapshotBalance(r) == LedgerSum(SubSeq(ledger, 1, req[r].snapLen), req[r].user)

\* C8: a CreateBooking running alone on an open slot of price p: with balance p
\* it passes the balance check, is answered 201 and its commit leaves balance 0
\* and the slot "booked"; with balance p - 1 it is answered 402 with
\* balance = p - 1 and required = p (storage faults aside).
C8_Boundary ==
    [][\A r \in Reqs :
         (/\ req[r].op = "create" /\ Alone(r) /\ req'[r].pc # req[r].pc
          /\ req[r].classSession.status = "open"
          /\ req[r].snapLen = Len(ledger)
          /\ resp'.cause \notin Faults)
         => LET p == req[r].classSession.priceCredits IN
            /\ (req[r].pc = "c_bal" /\ SnapshotBalance(r) = p - 1)
                 => /\ req'[r].status = 402
                    /\ req'[r].body = Body("Not enough credits", p - 1, p)
            /\ (req[r].pc = "c_bal" /\ SnapshotBalance(r) = p) => req'[r].pc = "c_upd"
            /\ (SnapshotBalance(r) = p /\ resp'.op = "create") => resp'.status = 201
            /\ (SnapshotBalance(r) = p /\ CreateCommits(r))
                 => /\ LedgerSum(ledger', req[r].user) = 0
                    /\ slots'[req[r].sid].status = "booked"]_vars

\* C9: a request answered with a business-rule failure (CreateBooking 409 or
\* 402, CancelBooking 404 or 409) has written nothing: the step that ends its
\* unit of work leaves slots, bookings and ledger as they were.
C9_FailureWritesNothing ==
    [][(resp'.op \in {"create", "cancel"} /\ resp'.status \in {402, 404, 409})
         => UNCHANGED <<slots, bookings, ledger>>]_vars

\* C9 witness: a CreateBooking has just been answered 402 for a slot it saw open.
C9_Witness ==
    /\ resp.op = "create" /\ resp.status = 402
    /\ resp.body.balance < resp.body.required
    /\ slots[resp.sid].status = "open"

Database == <<slots, bookings, ledger>>

\* C10: the unit of work is all-or-nothing.  The committed database changes only
\* when a transaction commits (or a non-transactional route writes, or the join
\* link of a committed booking is stored); a thrown
\* error leaves it untouched; while a transaction holds buffered writes the
\* committed slot and booking still show their old status; a CreateBooking
\* commit brings the slot transition, the booking and its spend entry together,
\* and a CancelBooking commit the cancelled booking, the re-opened slot and the
\* refund.
C10_AllOrNothing ==
    /\ [][/\ Database' # Database
             => \/ \E r \in Reqs : req[r].pc \in {"c_commit", "x_commit"}
                                   /\ req'[r].pc \in {"c_post", "x_post", "idle"}
                \/ resp'.op \in {"patch", "purchase", "complete"}
                \/ "meeting_link" \in effects'
          /\ resp'.status = 500 => Database' = Database
          /\ \A r \in Reqs :
               CreateCommits(r) =>
                 /\ slots'[req[r].sid].status = "booked"
                 /\ Len(bookings') = Len(bookings) + 1
                 /\ Last(bookings').status = "booked"
                 /\ Last(bookings').sessionId = req[r].sid
                 /\ Last(bookings').creditTxId = Len(ledger')
                 /\ Len(ledger') = Len(ledger) + 1
                 /\ Last(ledger') = SpendEntry(req[r].user, Last(bookings').priceCredits,
                                               Len(bookings'), req[r].sid)
          /\ \A r \in Reqs :
               CancelCommits(r) =>
                 /\ bookings'[req[r].bid].status = "cancelled"
                 /\ slots'[bookings[req[r].bid].sessionId].status = "open"
                 /\ Len(ledger') = Len(ledger) + 1
                 /\ Last(ledger').type = "refund"
                 /\ Last(ledger').bookingId = req[r].bid]_vars
    /\ [](\A r \in Reqs :
            /\ (req[r].op = "create" /\ req[r].writes.slot # <<>>)
                 => slots[req[r].sid].status = "open"
            /\ (req[r].op = "cancel" /\ req[r].writes.bookingSet # <<>>)
                 => bookings[req[r].bid].status = "booked")

\* C10 witness: a CreateBooking that had buffered its writes was hit by a storage
\* error: its slot is still open and carries no booking.
C10_Witness ==
    /\ resp.op = "create" /\ resp.cause = "storage" /\ resp.sid \in Slots
    /\ slots[resp.sid].status = "open"
    /\ \A i \in 1 .. Len(bookings) : bookings[i].sessionId # resp.sid

\* C11: the refund appended by a committing CancelBooking is the priceCredits
\* the booking recorded when it was made (the magnitude of its spend entry),
\* whatever the slot's price is now; no step changes a booking's priceCredits.
C11_RefundIsPricePaid ==
    [][/\ \A b \in 1 .. Len(bookings) : bookings'[b].priceCredits = bookings[b].priceCredits
       /\ \A r \in Reqs :
            CancelCommits(r) =>
              LET b == req[r].bid IN
              /\ Last(ledger').type = "refund" /\ Last(ledger').bookingId = b
              /\ Last(ledger').amount = bookings[b].priceCredits
              /\ bookings[b].priceCredits = 0 - ledger[bookings[b].creditTxId].amount]_vars

\* C11 witness: a cancellation has committed its refund for a booking whose slot
\* the teacher re-priced after the booking was made.
C11_Witness ==
    \E r \in Reqs :
        /\ req[r].pc = "x_post"
        /\ Last(ledger).type = "refund" /\ Last(ledger).bookingId = req[r].bid
        /\ slots[bookings[req[r].bid].sessionId].priceCredits
             # bookings[req[r].bid].priceCredits

OwnBooking(r) ==
    /\ req[r].op = "cancel"
    /\ req[r].bid <= Len(bookings)
    /\ bookings[req[r].bid].studentUserId = req[r].user

RefundsOf(b) == {i \in 1 .. Len(ledger) : ledger[i].type = "refund" /\ ledger[i].bookingId = b}

SpendsOf(b) == {i \in 1 .. Len(ledger) : ledger[i].type = "spend" /\ ledger[i].bookingId = b}

\* C12: a CancelBooking by the owner of a booking that is already cancelled ends
\* its unit of work with 409 and nothing buffered; the commit that precedes the
\* answer leaves slots, bookings and ledger (so every balance) as they were and
\* the answer is 409 (storage faults aside).
C12_SecondCancel409 ==
    [][\A r \in Reqs :
         /\ (/\ req[r].pc = "x_find" /\ OwnBooking(r)
             /\ bookings[req[r].bid].status = "cancelled"
             /\ req'[r].pc # req[r].pc)
            => /\ req'[r].pc = "x_commit" /\ req'[r].status = 409
               /\ req'[r].writes = NoWrites
         /\ (/\ req[r].pc = "x_commit" /\ req[r].status = 409
             /\ req'[r].pc # req[r].pc)
            => /\ UNCHANGED <<slots, bookings, ledger>>
               /\ resp'.status = 409 \/ resp'.cause = "storage"]_vars

\* C12 witness: the owner's second cancel has just been answered 409; the
\* booking is cancelled and carries its one refund.
C12_Witness ==
    /\ resp.op = "cancel" /\ resp.status = 409
    /\ bookings[resp.bid].studentUserId = resp.user
    /\ bookings[resp.bid].status = "cancelled"
    /\ Cardinality(RefundsOf(resp.bid)) = 1

\* C13: every committed booking has exactly one spend entry and at most one
\* refund entry, and every spend or refund entry belongs to a committed booking.
C13_ExactlyOnce ==
    /\ \A b \in 1 .. Len(bookings) :
          Cardinality(SpendsOf(b)) = 1 /\ Cardinality(RefundsOf(b)) <= 1
    /\ \A i \in 1 .. Len(ledger) :
          ledger[i].type \in {"spend", "refund"} => ledger[i].bookingId \in 1 .. Len(bookings)

\* C13 witness: of two CancelBooking requests in flight for the same booking one
\* has committed its refund and the other, run again after the write conflict,
\* is about to answer 409.
C13_Witness ==
    \E r, o \in Reqs :
        /\ r # o
        /\ req[r].op = "cancel" /\ req[o].op = "cancel" /\ req[r].bid = req[o].bid
        /\ req[o].pc = "x_post"
        /\ req[r].pc = "x_commit" /\ req[r].status = 409
        /\ Cardinality(RefundsOf(req[r].bid)) = 1

\* C14: a CancelBooking for a booking that does not exist or belongs to another
\* student ends its unit of work with 404 and nothing buffered; the commit that
\* precedes the answer leaves slots, bookings and ledger as they were and the
\* answer is 404 (storage faults aside).
C14_ForeignCancel404 ==
    [][\A r \in Reqs :
         /\ (/\ req[r].pc = "x_find" /\ ~OwnBooking(r)
             /\ req'[r].pc # req[r].pc)
            => /\ req'[r].pc = "x_commit" /\ req'[r].status = 404
               /\ req'[r].writes = NoWrites
         /\ (/\ req[r].pc = "x_commit" /\ req[r].status = 404
             /\ req'[r].pc # req[r].pc)
            => /\ UNCHANGED <<slots, bookings, ledger>>
               /\ resp'.status = 404 \/ resp'.cause = "storage"]_vars

\* C14 witness: a student has just been answered 404 for the live booking of
\* another student.
C14_Witness ==
    /\ resp.op = "cancel" /\ resp.status = 404
    /\ resp.bid <= Len(bookings)
    /\ bookings[resp.bid].studentUserId # resp.user
    /\ bookings[resp.bid].status = "booked"
    /\ RefundsOf(resp.bid) = {}

\* C15: a booking whose committed status is "cancelled" or "completed" keeps
\* that status in every later state.
C15_TerminalStatuses ==
    [][\A b \in 1 .. Len(bookings) :
         bookings[b].status \in {"cancelled", "completed"}
         => bookings'[b].status = bookings[b].status]_vars

CreateEffects == {"bbb_create", "meeting_link", "new_booking"}

\* C16: the provider call, the join link write and the new_booking notification
\* are made only by a step of a CreateBooking request that is past the commit
\* of a 201 result, its booking and spend entry being committed; the join link
\* of a slot changes in no other step.
C16_SideEffectsAfterCommit ==
    [][/\ (effects' \cap CreateEffects # {})
          => \E r \in Reqs :
               /\ req[r].op = "create" /\ req[r].pc \in {"c_post", "c_notify"}
               /\ req'[r].pc # req[r].pc
               /\ req[r].status = 201
               /\ \E b \in 1 .. Len(bookings) :
                     /\ bookings[b].sessionId = req[r].sid
                     /\ bookings[b].studentUserId = req[r].user
                     /\ SpendsOf(b) # {}
       /\ \A s \in Slots :
            slots'[s].meetingLink # slots[s].meetingLink => "meeting_link" \in effects']_vars

\* C16 witness: a CreateBooking answered 201 has just notified the teacher,
\* after its meeting was created and the join link stored.
C16_Witness ==
    /\ effects = {"new_booking"}
    /\ resp.op = "create" /\ resp.status = 201 /\ resp.bbb = "created"
    /\ slots[resp.sid].meetingLink

C18_PostCommitAnswersResult ==
    [][\A r \in Reqs :
         (/\ req[r].pc \in {"c_post", "c_notify", "x_post"}
          /\ req'[r].pc = "idle")
         => resp'.status = req[r].status]_vars

\* C19: no slot is "cancelled" while a booking on it is "booked" with no refund
\* entry.
C19_CancelledSlotRefunded ==
    \A s \in Slots :
        slots[s].status = "cancelled" => \A b \in BookedOn(s) : RefundsOf(b) # {}

SlotEdges == {<<"open", "booked">>, <<"booked", "open">>, <<"open", "cancelled">>}

\* C20: a slot's status changes only open -> booked (with the commit of a
\* CreateBooking), booked -> open (with the commit of a CancelBooking) or
\* open -> cancelled.
C20_SlotLifecycle ==
    [][\A s \in Slots :
         slots'[s].status # slots[s].status
         => /\ <<slots[s].status, slots'[s].status>> \in SlotEdges
            /\ slots'[s].status = "booked" => \E r \in Reqs : CreateCommits(r)
            /\ slots[s].status = "booked" => \E r \in Reqs : CancelCommits(r)]_vars

\* C21: every committed booking carries the priceCredits its slot had when the
\* booking committed, no step changes it afterwards, and its spend entry
\* amounts to minus that price.
C21_PriceFixedAtBooking ==
    /\ [](\A b \in 1 .. Len(bookings) :
            /\ bookings[b].creditTxId \in 1 .. Len(ledger)
            /\ ledger[bookings[b].creditTxId].amount = 0 - bookings[b].priceCredits)
    /\ [][/\ \A b \in 1 .. Len(bookings) :
               bookings'[b].priceCredits = bookings[b].priceCredits
          /\ \A r \in Reqs :
               CreateCommits(r) =>
                 /\ Last(bookings').priceCredits = slots[req[r].sid].priceCredits
                 /\ Last(bookings').priceCredits = slots'[req[r].sid].priceCredits]_vars

\* C21 witness: a booking of slot s2 made in this run, whose slot the teacher
\* has re-priced since.
C21_Witness ==
    \E b \in 1 .. Len(bookings) :
        /\ bookings[b].sessionId = "s2"
        /\ slots["s2"].priceCredits # bookings[b].priceCredits
        /\ ledger[bookings[b].creditTxId].amount = 0 - bookings[b].priceCredits

\* C22: every committed booking points, by creditTxId, at a committed "spend"
\* entry of its student that names this booking and its slot.
C22_BookingLinkedToSpend ==
    \A b \in 1 .. Len(bookings) :
        /\ bookings[b].creditTxId \in 1 .. Len(ledger)
        /\ LET e == ledger[bookings[b].creditTxId] IN
           /\ e.type = "spend"
           /\ e.userId = bookings[b].studentUserId
           /\ e.bookingId = b
           /\ e.sessionId = bookings[b].sessionId

\* C22 witness: student u2 has booked in this run and both the booking and its
\* spend entry are committed.
C22_Witness ==
    \E b \in 1 .. Len(bookings) :
        /\ bookings[b].studentUserId = "u2"
        /\ bookings[b].creditTxId = Len(ledger)
        /\ Last(ledger).type = "spend" /\ Last(ledger).bookingId = b

Available(s) == s \in Slots /\ slots[s].status = "open"

\* C23: a CreateBooking that finds its slot missing or not open ends its unit
\* of work with 409 whatever the caller's balance, and is answered 409 (storage
\* faults aside); a 402 is only ever set by the balance check of a request that
\* saw its slot open.
C23_AvailabilityBeforeBalance ==
    [][\A r \in Reqs :
         /\ (/\ req[r].pc = "c_find" /\ ~Available(req[r].sid)
             /\ req'[r].pc # req[r].pc)
            => req'[r].pc = "c_commit" /\ req'[r].status = 409
         /\ (req[r].op = "create" /\ req'[r].status = 402 /\ req[r].status # 402)
            => req[r].pc = "c_bal" /\ req[r].classSession.status = "open"
         /\ (/\ req[r].op = "create" /\ req[r].pc = "c_commit" /\ req[r].status = 409
             /\ req'[r].pc # req[r].pc)
            => resp'.status = 409 \/ resp'.cause = "storage"]_vars

\* C23 witness: a student whose balance is below the price of a booked slot has
\* just been answered 409 for it.
C23_Witness ==
    /\ resp.op = "create" /\ resp.status = 409
    /\ resp.sid \in Slots
    /\ slots[resp.sid].status = "booked"
    /\ LedgerSum(ledger, resp.user) < slots[resp.sid].priceCredits

\* C24: when the provider rejects the create call, the join link is stored and
\* the outcome is "exists" (created false, join link, no error) exactly when the
\* error carries the idNotUnique / not unique signature; on any other error the
\* slot's link is left alone and the outcome is the failure.  The outcome is
\* what the 201 answer carries.
C24_IdNotUniqueIsSuccess ==
    [][\A r \in Reqs :
         /\ (req[r].pc = "c_post" /\ req'[r].pc # req[r].pc /\ "bbb_error" \in effects')
            => IF "bbb_error_idNotUnique" \in effects' \/ "bbb_error_not_unique" \in effects'
               THEN /\ slots'[req[r].sid].meetingLink /\ "meeting_link" \in effects'
                    /\ req'[r].bbb = "exists"
               ELSE /\ slots'[req[r].sid].meetingLink = slots[req[r].sid].meetingLink
                    /\ "meeting_link" \notin effects'
                    /\ req'[r].bbb = "failed"
         /\ (req[r].pc = "c_notify" /\ req'[r].pc # req[r].pc /\ resp'.status = 201)
            => resp'.bbb = req[r].bbb]_vars

\* C24 witness: a CreateBooking whose meeting existed already has been answered
\* 201 with the join link, which is stored on its slot.
C24_Witness ==
    /\ resp.op = "create" /\ resp.status = 201 /\ resp.bbb = "exists"
    /\ slots[resp.sid].meetingLink

\* C25: every request in flight is eventually answered; a request leaves
\* exactly when its one response goes out; and a request that is answered or
\* past its commit holds no buffered write.
C25_EveryRequestAnswered ==
    /\ \A r \in Reqs : (req[r].pc # "idle") ~> (req[r].pc = "idle")
    /\ [][\A r \in Reqs :
            (req[r].pc # "idle" /\ req'[r].pc = "idle")
            <=> (resp'.op = req[r].op /\ resp'.op \in {"create", "cancel", "complete"}
                 /\ req'[r].pc # req[r].pc)]_vars
    /\ [](\A r \in Reqs :
            req[r].pc \in {"idle", "c_post", "c_notify", "x_post"} => req[r].writes = NoWrites)

\* C25 witness: of two CreateBooking requests contending for one slot the loser
\* has been answered 409 while the winner is past its commit.
C25_Witness ==
    /\ resp.op = "create" /\ resp.status = 409
    /\ \E o \in Reqs :
          /\ req[o].op = "create" /\ req[o].sid = resp.sid
          /\ req[o].pc \in {"c_post", "c_notify"}

\* C26: a join request of a student with no "booked" booking of the slot, or of
\* a teacher who does not own the slot, is answered 403; the redirect goes only
\* to the student holding a "booked" booking or to the slot's teacher.
C26_JoinNeedsLiveBooking ==
    resp.op = "join" =>
        LET live == \E b \in BookedOn(resp.sid) : bookings[b].studentUserId = resp.user
            owner == TeacherOf(resp.sid) = resp.user
        IN  /\ (resp.user \in Students /\ ~live) => resp.status = 403
            /\ (resp.user \in Teachers /\ ~owner) => resp.status = 403
            /\ resp.status = 302 => live \/ owner

\* C26 witness: a student whose booking of the slot is cancelled or completed
\* has just been refused the join.
C26_Witness ==
    /\ resp.op = "join" /\ resp.status = 403
    /\ \E i \in 1 .. Len(bookings) :
          /\ bookings[i].sessionId = resp.sid /\ bookings[i].studentUserId = resp.user
          /\ bookings[i].status \in {"cancelled", "completed"}

RECURSIVE PriceOver(_)
PriceOver(idx) ==
    IF idx = {} THEN 0
    ELSE LET i == CHOOSE j \in idx : TRUE IN bookings[i].priceCredits + PriceOver(idx \ {i})

\* C27: a booking has a refund entry exactly when its status is "cancelled",
\* and each student's spend and refund entries sum to minus the price of their
\* bookings that are not cancelled.
C27_LedgerConservation ==
    /\ \A b \in 1 .. Len(bookings) :
          (RefundsOf(b) # {}) <=> (bookings[b].status = "cancelled")
    /\ \A u \in Students :
          SumOver(ledger, {i \in 1 .. Len(ledger) :
                             ledger[i].userId = u /\ ledger[i].type \in {"spend", "refund"}})
          = 0 - PriceOver({b \in 1 .. Len(bookings) :
                             bookings[b].studentUserId = u /\ bookings[b].status # "cancelled"})

\* C28: the slot of every "booked" booking has status "booked".
C28_BookedSlotOfBookedBooking ==
    \A b \in 1 .. Len(bookings) :
        bookings[b].status = "booked" => slots[bookings[b].sessionId].status = "booked"

\* C29: the price the conditional update returns is the price the balance was
\* checked against, and a committing CreateBooking records and debits that
\* price, which the balance it read covers.
C29_CheckedPriceIsDebitedPrice ==
    [][\A r \in Reqs :
         /\ (req[r].pc = "c_upd" /\ req'[r].pc = "c_ins")
            => req'[r].updated.priceCredits = req[r].classSession.priceCredits
         /\ CreateCommits(r)
            => /\ Last(bookings').priceCredits = req[r].classSession.priceCredits
               /\ Last(ledger').amount = 0 - req[r].classSession.priceCredits
               /\ SnapshotBalance(r) >= req[r].classSession.priceCredits]_vars

\* C29 witness: the teacher changed the price of a slot after a CreateBooking,
\* now about to update it, had checked the balance against the old price.
C29_Witness ==
    \E r \in Reqs :
        /\ req[r].pc = "c_upd"
        /\ req[r].sid \in req[r].staleS
        /\ slots[req[r].sid].status = "open"
        /\ slots[req[r].sid].priceCredits > req[r].classSession.priceCredits

\* The student on whose behalf a step writes the ledger.
Writer ==
    IF resp'.op = "purchase" THEN {resp'.user}
    ELSE {req[r].user : r \in {x \in Reqs : req[x].pc \in {"c_commit", "x_commit"}
                                             /\ req'[x].pc # req[x].pc}}

\* C30: every entry a step appends carries the userId of the student whose
\* request the step belongs to, and no step changes the balance of any other
\* student.
C30_PerUserIsolation ==
    [][ledger' # ledger
         => /\ \A i \in Len(ledger) + 1 .. Len(ledger') : ledger'[i].userId \in Writer
            /\ \A v \in Students \ Writer : LedgerSum(ledger', v) = LedgerSum(ledger, v)]_vars

\* C30 witness: student u2's spend entry has been committed while a request of
\* student u1 is in flight.
C30_Witness ==
    /\ Last(ledger).userId = "u2" /\ Last(ledger).type = "spend"
    /\ \E r, o \in Reqs :
          /\ req[r].user = "u2" /\ req[r].pc \in {"c_post", "c_notify"}
          /\ req[o].user = "u1" /\ req[o].pc # "idle"

====
